---- MODULE Spec2Model ----
(***************************************************************************)
(* TopCV job crawler (src/src/scrape_topcv.py): the resilient fetcher      *)
(* get_soup and the three-stage pipeline crawl_to_dataframe /              *)
(* crawl_many_keywords.                                                    *)
(*                                                                         *)
(* Four specifications share the module:                                   *)
(*   SpecFetch    one get_soup call, attempt by attempt, against a server  *)
(*                that answers each attempt with any status of Statuses;   *)
(*   SpecSlug     one slugify call on a text of SlugTexts;                 *)
(*   SpecExtract  one extractor on one document of ExtractPages;           *)
(*   Spec         one crawl_many_keywords run; each get_soup call is one   *)
(*                step that applies the same per-attempt logic (GetSoup)   *)
(*                to the answers the server gives to that call.            *)
(***************************************************************************)
EXTENDS Integers, Sequences, FiniteSets, TLC

(***************************************************************************)
(* Bounds of the model.                                                    *)
(***************************************************************************)
MaxKw == 2        \* longest keyword list
MaxPage == 2      \* largest page number of a page range
MaxStubs == 2     \* most job entries on one listing page
MaxFetches == 4   \* most get_soup calls of a run
MaxNameEls == 2   \* most elements of a company page that may hold its name
MaxInfoRows == 2  \* most rows of the overview container of a company page
MaxSlugLen == 3   \* longest text slugify is tried on, besides the keywords

(***************************************************************************)
(* Values.                                                                 *)
(***************************************************************************)
None == "None"

\* a loop that goes one attempt too far
MaxAttemptsOffByOne == 5 + 1

\* for attempt in range(1, 6)
MaxAttempts == 5

\* a network-level failure of session.get (requests.RequestException)
NetError == 0

\* what one session.get can end with: a status code, or a network error
Statuses == {200, 204, 403, 404, 429, 500, NetError}

(***************************************************************************)
(* get_soup, one iteration of its loop: what the body does with the        *)
(* answer to attempt number `attempt`.                                     *)
(*   "content"   return BeautifulSoup(r.text)                              *)
(*   "empty"     return BeautifulSoup("")                                  *)
(*   "continue"  sleep and go to the next iteration                        *)
(*   "raise"     the exception leaves get_soup                             *)
(***************************************************************************)
\* a raise_for_status that lets the client errors through
RaisesForStatusServerOnly(status) == status >= 500 /\ status < 600

\* r.raise_for_status() raises HTTPError for 4xx and 5xx answers
RaisesForStatus(status) == status >= 400 /\ status < 600

\* an except branch that gives up at once
OnRequestExceptionNoRetry(attempt) == "raise"

\* except requests.exceptions.RequestException
OnRequestException(attempt) ==
    IF attempt < MaxAttempts THEN "continue" ELSE "raise"

\* a 403 handled like any other error status
On403AsError(attempt) == OnRequestException(attempt)

\* if r.status_code == 403
On403(attempt) ==
    IF attempt < MaxAttempts THEN "continue" ELSE "empty"

AttemptResult(attempt, status) ==
    IF status = NetError THEN OnRequestException(attempt)
    ELSE IF status = 200 THEN "content"
    ELSE IF status = 403 THEN On403(attempt)
    ELSE IF status = 429 THEN "continue"
    ELSE IF RaisesForStatus(status) THEN OnRequestException(attempt)
    ELSE "content"

(***************************************************************************)
(* get_soup as a whole, on the answers resps[1], resps[2], ... the server  *)
(* gives to its successive attempts: the outcome and the number of         *)
(* attempts issued.  A loop that runs out of iterations falls through to   *)
(* the final return BeautifulSoup("").                                     *)
(***************************************************************************)
RECURSIVE GetSoupFrom(_, _)
GetSoupFrom(resps, attempt) ==
    IF attempt > MaxAttempts
    THEN [outcome |-> "empty", attempts |-> MaxAttempts]
    ELSE LET r == AttemptResult(attempt, resps[attempt])
         IN  IF r = "continue"
             THEN GetSoupFrom(resps, attempt + 1)
             ELSE [outcome |-> r, attempts |-> attempt]

GetSoup(resps) == GetSoupFrom(resps, 1)

(***************************************************************************)
(* The sleeps of get_soup, in whole seconds.  random.uniform(lo, hi) is    *)
(* one of the two ends of its range.                                       *)
(***************************************************************************)
Uniform(lo, hi) == {lo, hi}

\* if attempt > 1: time.sleep(random.uniform(3.0, 6.0) * attempt)
PreDelays(attempt) ==
    IF attempt > 1 THEN { u * attempt : u \in Uniform(3, 6) } ELSE {0}

\* the Retry-After header of a 429 answer: none, a number of seconds, or an
\* HTTP date
RetryAfters == {None, "0", "120", "Wed, 21 Oct 2026 07:28:00 GMT"}

\* int(retry_after) succeeds
ParsesAsInt(header) == header \in {"0", "120"}

\* int(retry_after)
IntOf(header) == IF header = "0" THEN 0 ELSE 120

\* a 429 branch that does not look at the header
Wait429NoHeader(attempt, header) == 30 * attempt

\* retry_after = r.headers.get("Retry-After", str(30 * attempt));
\* try: wait = int(retry_after) except ValueError: wait = 30 * attempt
Wait429(attempt, header) ==
    IF header # None /\ ParsesAsInt(header)
    THEN IntOf(header)
    ELSE 30 * attempt

\* wait = wait + random.uniform(5.0, 15.0); time.sleep(wait)
Sleeps429(attempt, header) ==
    { Wait429(attempt, header) + u : u \in Uniform(5, 15) }

\* wait_time = random.uniform(10.0, 20.0) * attempt; time.sleep(wait_time)
Sleeps403(attempt) == { u * attempt : u \in Uniform(10, 20) }

\* time.sleep(random.uniform(5.0, 10.0) * attempt)
SleepsError(attempt) == { u * attempt : u \in Uniform(5, 10) }

\* the sleep that follows the answer to an attempt, 0 when there is none
BackoffSleeps(attempt, status, header) ==
    IF status = 429 THEN Sleeps429(attempt, header)
    ELSE IF AttemptResult(attempt, status) # "continue" THEN {0}
    ELSE IF status = 403 THEN Sleeps403(attempt)
    ELSE SleepsError(attempt)

(***************************************************************************)
(* get_soup of src/scrape_topcv_company.py, one iteration of its loop: no  *)
(* try/except, and only 429 is retried.                                    *)
(***************************************************************************)
CompanyVariantAttemptResult(attempt, status) ==
    IF status = NetError THEN "raise"
    ELSE IF status = 429 THEN "continue"
    ELSE IF RaisesForStatus(status) THEN "raise"
    ELSE "content"

\* after the loop: r.raise_for_status() on the last answer, a 429
CompanyVariantAfterLoop == "raise"

(***************************************************************************)
(* Pages of the site.  A parsed document (BeautifulSoup) is modelled by    *)
(* what the extractors can find in it: the job entries of a listing page,  *)
(* whether the labelled elements of a detail or company page are there,    *)
(* the employer link of a detail page, and the elements of a company page  *)
(* that the selectors of the company name match, in the order tried.       *)
(***************************************************************************)
UrlA == "https://www.topcv.vn/cong-ty/a"
UrlB == "https://www.topcv.vn/cong-ty/b"

\* job URLs as urljoin(BASE, href) yields them, with what urlparse makes of each
UrlParts ==
    { [url |-> "https://www.topcv.vn/viec-lam/a", path |-> "/viec-lam/a"],
      [url |-> "https://www.topcv.vn/viec-lam/a?ta_source=x", path |-> "/viec-lam/a"],
      [url |-> "https://www.topcv.vn/viec-lam/b", path |-> "/viec-lam/b"] }

JobUrls == { e.url : e \in UrlParts }

\* urlparse(job_url).path
UrlPath(url) == (CHOOSE e \in UrlParts : e.url = url).path

StubKeys == {"title", "job_url", "company", "company_url",
             "salary_list", "address_list", "exp_list"}

DetailKeys == {"detail_title", "detail_salary", "detail_location",
               "detail_experience", "deadline", "tags", "desc_mota",
               "desc_yeucau", "desc_quyenloi", "working_addresses",
               "working_times", "company_url_from_job"}

CompanyKeys == {"company_name_full", "company_website", "company_size",
                "company_industry", "company_address", "company_description"}

\* the dict parse_search_page appends for one job entry
Stub(job_url, company_url) ==
    [k \in StubKeys |->
        IF k = "job_url" THEN job_url
        ELSE IF k = "company_url" THEN company_url
        ELSE k]

\* the job entries a listing page may show: one job under two URLs, without
\* an employer link, and another job with one
Stubs ==
    { Stub("https://www.topcv.vn/viec-lam/a", None),
      Stub("https://www.topcv.vn/viec-lam/a?ta_source=x", None),
      Stub("https://www.topcv.vn/viec-lam/b", UrlA) }

RECURSIVE SeqsUpTo(_, _)
SeqsUpTo(S, n) ==
    IF n = 0 THEN {<<>>}
    ELSE LET shorter == SeqsUpTo(S, n - 1)
         IN  shorter \cup { Append(q, x) : q \in shorter, x \in S }

\* BeautifulSoup("", "lxml")
EmptySoup ==
    [items |-> <<>>, elements |-> FALSE, company_link |-> None, name_els |-> <<>>,
     info_rows |-> <<>>]

\* a listing page shows a job entry once
ListingPages ==
    { [items |-> q, elements |-> FALSE, company_link |-> None, name_els |-> <<>>,
       info_rows |-> <<>>] :
        q \in { l \in SeqsUpTo(Stubs, MaxStubs) :
                   \A i, j \in 1..Len(l) : i # j => l[i] # l[j] } }

DetailPages ==
    { [items |-> <<>>, elements |-> TRUE, company_link |-> c, name_els |-> <<>>,
       info_rows |-> <<>>] :
        c \in {None, UrlB} }

\* an element a name selector matches: a <meta> with its content attribute
\* (None when it has none), or another element with its
\* get_text(" ", strip=True)
NameElements ==
    { [meta |-> TRUE, value |-> v] : v \in {None, "", "ACME"} }
    \cup { [meta |-> FALSE, value |-> v] : v \in {"", "ACME", "ACME | TopCV", "| TopCV"} }

\* a row of the overview container after lines 319-330: its label, as the
\* words of label.lower(), and its value ("" when nothing is left of the
\* row's text)
InfoLabels ==
    { <<"website">>, <<"company", "size">>, <<"industry">>, <<"address">>,
      <<"website", "address">>, <<"phone">> }

InfoRows == { [label |-> l, value |-> v] : l \in InfoLabels, v \in {"", "one", "two"} }

\* the company pages of a run: the name in a heading, one row per field
CompanyPages ==
    { [items |-> <<>>, elements |-> TRUE, company_link |-> None,
       name_els |-> << [meta |-> FALSE, value |-> "ACME"] >>,
       info_rows |-> << [label |-> <<"website">>, value |-> "acme.vn"],
                        [label |-> <<"company", "size">>, value |-> "100"],
                        [label |-> <<"industry">>, value |-> "IT"],
                        [label |-> <<"address">>, value |-> "Hanoi"] >>] }

\* the company pages an extractor may be handed: any name elements, or any
\* rows
AllCompanyPages ==
    { [items |-> <<>>, elements |-> e, company_link |-> None, name_els |-> q,
       info_rows |-> <<>>] :
        e \in BOOLEAN, q \in SeqsUpTo(NameElements, MaxNameEls) }
    \cup
    { [items |-> <<>>, elements |-> e, company_link |-> None,
       name_els |-> << [meta |-> FALSE, value |-> "ACME"] >>, info_rows |-> q] :
        e \in BOOLEAN, q \in SeqsUpTo(InfoRows, MaxInfoRows) }

(***************************************************************************)
(* The answers of the server to one get_soup call of a run: the same       *)
(* status on every attempt; for the detail and company pages also a 403 on *)
(* the first attempt and 200 after.                                        *)
(***************************************************************************)
RunStatuses == {200, 403, 429, 500}

ServerAnswers == { [i \in 1..MaxAttempts |-> s] : s \in RunStatuses }

\* a block on the first attempt that the retry gets past
RetriedAnswers == { [i \in 1..MaxAttempts |-> IF i = 1 THEN 403 ELSE 200] }

\* one get_soup call: the answers it received, how it ended, the document;
\* here the calls that get one of these answers for one of these pages
CallsOn(answers, pages) ==
    { [answers |-> SubSeq(r, 1, GetSoup(r).attempts),
       outcome |-> GetSoup(r).outcome,
       soup    |-> IF GetSoup(r).outcome = "content" THEN p ELSE EmptySoup] :
        r \in answers, p \in pages }

\* the get_soup calls of parse_search_page
GetSoupCalls(pages) == CallsOn(ServerAnswers, pages)

\* the get_soup calls of scrape_job_detail and scrape_company
StageCalls(pages) == CallsOn(ServerAnswers \cup RetriedAnswers, pages)

NoCall == [answers |-> <<>>, outcome |-> "none", soup |-> EmptySoup]

(***************************************************************************)
(* The extractors.                                                         *)
(***************************************************************************)
\* parse_search_page, after get_soup
ParseSearchPage(soup) == soup.items

\* a detail extractor that fills in what it does not find
ScrapeJobDetailFilled(soup) ==
    [k \in DetailKeys |->
        IF k = "company_url_from_job" THEN soup.company_link ELSE k]

\* scrape_job_detail, after get_soup
ScrapeJobDetail(soup) ==
    [k \in DetailKeys |->
        IF k = "company_url_from_job" THEN soup.company_link
        ELSE IF soup.elements THEN k ELSE None]

\* text(el), on the get_text(" ", strip=True) of an element
text(t) == IF t = "" THEN None ELSE t

\* re.sub(r"\s*\|\s*TopCV.*$", "", company_name, flags=re.I)
StripBranding(name) ==
    IF name = "ACME | TopCV" THEN "ACME"
    ELSE IF name = "| TopCV" THEN ""
    ELSE name

\* scrape_company, the loop over the selectors of the company name:
\* company_name is assigned from every matched element, and the loop ends
\* at the first one that gives a non-empty value
RECURSIVE CompanyNameFrom(_, _)
CompanyNameFrom(els, company_name) ==
    IF els = <<>> THEN company_name
    ELSE LET el == Head(els)
             v  == IF el.meta THEN el.value ELSE text(el.value)
         IN  IF v # None /\ v # ""
             THEN StripBranding(v)
             ELSE CompanyNameFrom(Tail(els), v)

\* "word" in ln
Contains(ln, word) == \E i \in 1..Len(ln) : ln[i] = word

\* the if/elif chain over ln: the field a row's label stands for
FieldOf(ln) ==
    IF Contains(ln, "website") THEN "company_website"
    ELSE IF Contains(ln, "size") THEN "company_size"
    ELSE IF Contains(ln, "industry") THEN "company_industry"
    ELSE IF Contains(ln, "address") THEN "company_address"
    ELSE None

InfoFields ==
    {"company_website", "company_size", "company_industry", "company_address"}

\* website = size = industry = address = None
NoInfo == [k \in InfoFields |-> None]

\* scrape_company, the loop over the rows: a row without label or value is
\* skipped, every other row assigns the field its label stands for
RECURSIVE InfoFrom(_, _)
InfoFrom(rows, info) ==
    IF rows = <<>> THEN info
    ELSE LET row == Head(rows)
             k   == FieldOf(row.label)
         IN  InfoFrom(Tail(rows),
                      IF row.label = <<>> \/ row.value = "" \/ k = None
                      THEN info
                      ELSE [info EXCEPT ![k] = row.value])

\* scrape_company, after get_soup
ScrapeCompany(soup) ==
    [k \in CompanyKeys |->
        IF k = "company_name_full" THEN CompanyNameFrom(soup.name_els, None)
        ELSE IF k \in InfoFields THEN InfoFrom(soup.info_rows, NoInfo)[k]
        ELSE IF soup.elements THEN k ELSE None]

\* a stage that skips its delay when get_soup had to retry
ReachesSleepFirstTry(call) == call.outcome # "raise" /\ Len(call.answers) = 1

\* soup = get_soup(session, url); smart_sleep(): the delay is reached
\* whenever get_soup returns
ReachesSleep(call) == call.outcome # "raise"

\* an except branch that fills the fields with empty strings
EmptyStringDetail == [k \in DetailKeys |-> ""]

\* detail = {k: None for k in [...]}
AbsentDetail == [k \in DetailKeys |-> None]

\* an all-None dict that misses a key
AbsentCompanyShort == [k \in CompanyKeys \ {"company_description"} |-> None]

\* comp = {k: None for k in [...]}, and scrape_company without a URL
AbsentCompany == [k \in CompanyKeys |-> None]

(***************************************************************************)
(* crawl_to_dataframe and crawl_many_keywords: the pieces.                 *)
(***************************************************************************)
\* the whole URL as the identity of a job
JobIdWholeUrl(j) == j["job_url"]

\* job_id = urlparse(job_url).path
JobId(j) == UrlPath(j["job_url"])

\* the stub's employer URL before the detail page's
ResolveCompanyUrlStubFirst(detail, j) ==
    IF j["company_url"] # None
    THEN j["company_url"]
    ELSE detail["company_url_from_job"]

\* company_url = detail.get("company_url_from_job") or j.get("company_url")
ResolveCompanyUrl(detail, j) ==
    IF detail["company_url_from_job"] # None
    THEN detail["company_url_from_job"]
    ELSE j["company_url"]

\* row = {**j, **detail, **comp}; row["crawl_date"] = crawl_date
MergeRow(j, detail, comp, date) ==
    ("crawl_date" :> date) @@ comp @@ detail @@ j

(***************************************************************************)
(* Text.  A text is the sequence of its characters; a character outside    *)
(* ASCII is written by its code point: U+1EF9 is y with tilde, which NFD   *)
(* splits into y and the combining tilde U+0303; U+0111 is d with stroke,  *)
(* which has no decomposition.                                             *)
(***************************************************************************)
LowerLetters == <<"a", "b", "c", "d", "e", "f", "g", "h", "i", "j", "k", "l", "m",
                  "n", "o", "p", "q", "r", "s", "t", "u", "v", "w", "x", "y", "z">>
UpperLetters == <<"A", "B", "C", "D", "E", "F", "G", "H", "I", "J", "K", "L", "M",
                  "N", "O", "P", "Q", "R", "S", "T", "U", "V", "W", "X", "Y", "Z">>
Digits == {"0", "1", "2", "3", "4", "5", "6", "7", "8", "9"}

Range(q) == { q[i] : i \in DOMAIN q }

\* [a-zA-Z0-9]
Alnum == Range(LowerLetters) \cup Range(UpperLetters) \cup Digits

\* the characters \s matches, among those of the model
Whitespace == {" ", "\t"}

NonAscii == {"U+1EF9", "U+0111", "U+0303"}

\* unicodedata.normalize("NFD", c) for one character
NFD(c) == IF c = "U+1EF9" THEN <<"y", "U+0303">> ELSE <<c>>

\* unicodedata.normalize("NFD", text)
RECURSIVE Normalize(_)
Normalize(t) ==
    IF t = <<>> THEN <<>> ELSE NFD(Head(t)) \o Normalize(Tail(t))

\* text.encode("ascii", "ignore").decode("ascii")
RECURSIVE EncodeAsciiIgnore(_)
EncodeAsciiIgnore(t) ==
    IF t = <<>> THEN <<>>
    ELSE IF Head(t) \in NonAscii THEN EncodeAsciiIgnore(Tail(t))
    ELSE <<Head(t)>> \o EncodeAsciiIgnore(Tail(t))

\* re.sub(r"[^a-zA-Z0-9\s-]", " ", text)
SubOtherBySpace(t) ==
    [i \in 1..Len(t) |->
        IF t[i] \in Alnum \cup Whitespace \cup {"-"} THEN t[i] ELSE " "]

\* text.strip()
RECURSIVE LStrip(_)
LStrip(t) ==
    IF t # <<>> /\ Head(t) \in Whitespace THEN LStrip(Tail(t)) ELSE t

RECURSIVE RStrip(_)
RStrip(t) ==
    IF t # <<>> /\ t[Len(t)] \in Whitespace
    THEN RStrip(SubSeq(t, 1, Len(t) - 1))
    ELSE t

Strip(t) == RStrip(LStrip(t))

\* the rest of t after its longest prefix of characters of S
RECURSIVE DropWhile(_, _)
DropWhile(t, S) ==
    IF t # <<>> /\ Head(t) \in S THEN DropWhile(Tail(t), S) ELSE t

\* re.sub(r"[S]+", "-", text): every maximal run of characters of S
\* becomes one hyphen
RECURSIVE SubRuns(_, _)
SubRuns(t, S) ==
    IF t = <<>> THEN <<>>
    ELSE IF Head(t) \in S THEN <<"-">> \o SubRuns(DropWhile(t, S), S)
    ELSE <<Head(t)>> \o SubRuns(Tail(t), S)

\* a lower() that leaves the letters as they are
ToLowerKeep(c) == c

\* str.lower() for one character
ToLower(c) ==
    IF c \in Range(UpperLetters)
    THEN LowerLetters[CHOOSE i \in DOMAIN UpperLetters : UpperLetters[i] = c]
    ELSE c

\* a slugify that does not collapse the hyphens
slugifyNoCollapse(t) ==
    LET spaced == SubOtherBySpace(EncodeAsciiIgnore(Normalize(t)))
        hyphened == SubRuns(Strip(spaced), Whitespace)
    IN  [i \in 1..Len(hyphened) |-> ToLower(hyphened[i])]

\* slugify
slugify(t) ==
    LET spaced == SubOtherBySpace(EncodeAsciiIgnore(Normalize(t)))
        hyphened == SubRuns(Strip(spaced), Whitespace)
        collapsed == SubRuns(hyphened, {"-"})
    IN  [i \in 1..Len(collapsed) |-> ToLower(collapsed[i])]

DataEngineer == <<"D", "a", "t", "a", " ", "E", "n", "g", "i", "n", "e", "e", "r">>
DataAnalyst == <<"D", "a", "t", "a", " ", "A", "n", "a", "l", "y", "s", "t">>

\* the keyword lists of the model: the first keywords of a list that
\* alternates two keywords
KeywordOrder == <<DataEngineer, DataAnalyst, DataEngineer, DataAnalyst>>
KeywordLists == { SubSeq(KeywordOrder, 1, n) : n \in 0..MaxKw }

\* the characters of the texts slugify is tried on
SlugChars == {"a", "B", "7", " ", "\t", "-", "!", "U+1EF9", "U+0111"}

SlugTexts == SeqsUpTo(SlugChars, MaxSlugLen) \cup Range(KeywordOrder)

\* cols = [...]: the columns crawl_to_dataframe returns, when they are there
Columns ==
    {"crawl_date", "title", "detail_title", "job_url", "company",
     "company_name_full", "company_url", "company_url_from_job",
     "salary_list", "detail_salary", "address_list", "detail_location",
     "exp_list", "detail_experience", "deadline", "tags",
     "working_addresses", "working_times", "desc_mota", "desc_yeucau",
     "desc_quyenloi", "company_website", "company_size", "company_industry",
     "company_address", "company_description"}

\* cols = [c for c in cols if c in df.columns]; df.loc[:, cols]
SelectColumns(frame) ==
    [i \in 1..Len(frame) |->
        [k \in DOMAIN frame[i] \cap Columns |-> frame[i][k]]]

\* df_kw.insert(1, "search_keyword", kw); df_kw.insert(2, "search_slug", slugify(kw))
TagFrame(frame, kw) ==
    [i \in 1..Len(frame) |->
        ("search_keyword" :> kw) @@ ("search_slug" :> slugify(kw)) @@ frame[i]]

\* pd.concat(all_frames, ignore_index=True)
RECURSIVE Concat(_)
Concat(frames) ==
    IF frames = <<>> THEN <<>> ELSE Head(frames) \o Concat(Tail(frames))

\* the column drop_duplicates compares: the first of job_path, job_url the
\* frame has
DedupKey(row) ==
    IF "job_path" \in DOMAIN row THEN row["job_path"] ELSE row["job_url"]

\* df_all.drop_duplicates(subset=[key]): the first row of each key stays
RECURSIVE DropDuplicatesFrom(_, _)
DropDuplicatesFrom(df, kept) ==
    IF df = <<>> THEN kept
    ELSE IF \E i \in 1..Len(kept) : DedupKey(kept[i]) = DedupKey(Head(df))
         THEN DropDuplicatesFrom(Tail(df), kept)
         ELSE DropDuplicatesFrom(Tail(df), Append(kept, Head(df)))

DropDuplicates(df) == DropDuplicatesFrom(df, <<>>)

Today == "2026-01-02"
Tomorrow == "2026-01-03"

\* what datetime.now().strftime("%Y-%m-%d") may yield after the start of a
\* run that starts Today and may last into the next day
Clock == {Today, Tomorrow}

CrawlDates == {None, "2025-12-31"}

\* if crawl_date is None: crawl_date = datetime.now().strftime("%Y-%m-%d")
DefaultDate(date, now) == IF date = None THEN now ELSE date

\* a call of crawl_to_dataframe that leaves the date out
DateArgumentOmitted(date) == None

\* crawl_to_dataframe(..., crawl_date=crawl_date)
DateArgument(date) == date

\* a page loop that counts down
NextPageDown(p) == p - 1

\* for page in range(start_page, end_page + 1): the page after page p
NextPage(p) == p + 1

\* a company stage that fetches whatever it is given
HasCompanyUrlAlways(url) == TRUE

\* scrape_company: if not company_url: return {... None ...}
HasCompanyUrl(url) == url # None

VARIABLES
    \* get_soup, attempt by attempt (SpecFetch)
    f_attempt,      \* the loop variable attempt
    f_hist,         \* the answers received so far in this call
    f_out,          \* "running", or how the call ended
    f_pre,          \* the delay slept before the latest attempt
    f_retry_after,  \* the Retry-After header of the latest answer
    f_nap,          \* the sleep that followed the latest answer
    \* get_soup of src/scrape_topcv_company.py on the same answers
    v_attempts,     \* the attempts it has issued
    v_out,          \* "running", or how the call ended
    \* the arguments of crawl_many_keywords
    keywords, start_page, end_page, crawl_date_arg,
    \* crawl_many_keywords
    pc,             \* the position of the run
    crawl_date,     \* the date the rows are stamped with
    kw,             \* index in keywords of the keyword being crawled
    all_frames,     \* the tagged frames of the keywords crawled so far
    df_all,         \* the returned dataset
    \* crawl_to_dataframe, for the keyword being crawled
    crawl_date_kw,  \* the parameter crawl_date of crawl_to_dataframe
    page, jobs, jidx, seen_jobs, rows,
    listing_call,   \* the get_soup call of parse_search_page for this page
    warmup,         \* the answer to the warm-up GET of build_session, until the
                    \* page loop starts
    detail, company_url, comp,
    slept,          \* the stages of the current job that reached their smart_sleep()
    \* history
    requests,       \* the get_soup calls and warm-up GETs issued so far
    detail_call,    \* the get_soup call of the detail stage of the current job
    company_call,   \* the get_soup call of the company stage of the current job
    \* slugify on its own (SpecSlug)
    s_text,         \* the argument, a sequence of characters
    s_slug,         \* the value returned
    s_pc,           \* "ready" before the call, "done" after it
    \* an extractor on its own (SpecExtract)
    x_soup,         \* the document get_soup handed to the extractor
    x_kind,         \* "none", or the extractor that ran
    x_out           \* the dicts the extractor returned

fvars == <<f_attempt, f_hist, f_out, f_pre, f_retry_after, f_nap, v_attempts, v_out>>
svars == <<s_text, s_slug, s_pc>>
xvars == <<x_soup, x_kind, x_out>>
args == <<keywords, start_page, end_page, crawl_date_arg>>
runvars == <<pc, crawl_date, kw, all_frames, df_all>>
kwvars == <<crawl_date_kw, page, jobs, jidx, seen_jobs, rows, listing_call, warmup>>
jobvars == <<detail, company_url, comp, slept, detail_call, company_call>>
vars == <<fvars, svars, xvars, args, runvars, kwvars, jobvars, requests>>

(***************************************************************************)
(* SpecFetch: one get_soup call.                                           *)
(***************************************************************************)
FetchIdle ==
    /\ f_attempt = 1
    /\ f_hist = <<>>
    /\ f_out = "running"
    /\ f_pre = 0 /\ f_retry_after = None /\ f_nap = 0
    /\ v_attempts = 0 /\ v_out = "running"

SlugIdle ==
    /\ s_text = <<>> /\ s_slug = <<>> /\ s_pc = "idle"

ExtractIdle ==
    /\ x_soup = EmptySoup /\ x_kind = "idle" /\ x_out = <<>>

RunIdle ==
    /\ keywords = <<>> /\ start_page = 1 /\ end_page = 1 /\ crawl_date_arg = None
    /\ pc = "idle" /\ crawl_date = None /\ kw = 0
    /\ all_frames = <<>> /\ df_all = <<>>
    /\ crawl_date_kw = None
    /\ page = 0 /\ jobs = <<>> /\ jidx = 0 /\ seen_jobs = {} /\ rows = <<>>
    /\ listing_call = NoCall /\ warmup = <<>>
    /\ detail = AbsentDetail /\ company_url = None /\ comp = AbsentCompany
    /\ slept = {}
    /\ detail_call = NoCall /\ company_call = NoCall
    /\ requests = <<>>

InitFetch == FetchIdle /\ RunIdle /\ SlugIdle /\ ExtractIdle

\* one iteration of the loop of get_soup
FetchAttempt ==
    /\ f_out = "running"
    /\ f_pre' \in PreDelays(f_attempt)
    /\ \E status \in Statuses :
         LET r == AttemptResult(f_attempt, status)
             v == CompanyVariantAttemptResult(f_attempt, status)
         IN  /\ f_hist' = Append(f_hist, status)
             /\ f_retry_after' \in IF status = 429 THEN RetryAfters ELSE {None}
             /\ f_nap' \in BackoffSleeps(f_attempt, status, f_retry_after')
             /\ IF v_out = "running"
                THEN /\ v_attempts' = v_attempts + 1
                     /\ v_out' = IF v # "continue" THEN v
                                  ELSE IF f_attempt < MaxAttempts THEN "running"
                                  ELSE CompanyVariantAfterLoop
                ELSE UNCHANGED <<v_attempts, v_out>>
             /\ IF r = "continue"
                THEN IF f_attempt < MaxAttempts
                     THEN f_attempt' = f_attempt + 1 /\ f_out' = f_out
                     ELSE f_attempt' = f_attempt /\ f_out' = "empty"
                ELSE f_attempt' = f_attempt /\ f_out' = r
    /\ UNCHANGED <<svars, xvars, args, runvars, kwvars, jobvars, requests>>

NextFetch == FetchAttempt

SpecFetch == InitFetch /\ [][NextFetch]_vars

(***************************************************************************)
(* SpecSlug: one slugify call.                                             *)
(***************************************************************************)
InitSlug ==
    /\ FetchIdle /\ RunIdle /\ ExtractIdle
    /\ s_text \in SlugTexts
    /\ s_slug = <<>>
    /\ s_pc = "ready"

Slugify ==
    /\ s_pc = "ready"
    /\ s_slug' = slugify(s_text)
    /\ s_pc' = "done"
    /\ UNCHANGED <<fvars, s_text, xvars, args, runvars, kwvars, jobvars, requests>>

NextSlug == Slugify

SpecSlug == InitSlug /\ [][NextSlug]_vars

(***************************************************************************)
(* SpecExtract: one extractor on one document.                             *)
(***************************************************************************)
ExtractPages == ListingPages \cup DetailPages \cup AllCompanyPages

InitExtract ==
    /\ FetchIdle /\ RunIdle /\ SlugIdle
    /\ x_soup \in ExtractPages
    /\ x_kind = "none"
    /\ x_out = <<>>

\* parse_search_page returns its list of dicts
ExtractListing ==
    /\ x_kind = "none"
    /\ x_kind' = "listing"
    /\ x_out' = ParseSearchPage(x_soup)
    /\ UNCHANGED <<fvars, svars, x_soup, args, runvars, kwvars, jobvars, requests>>

\* scrape_job_detail returns its dict
ExtractDetail ==
    /\ x_kind = "none"
    /\ x_kind' = "detail"
    /\ x_out' = << ScrapeJobDetail(x_soup) >>
    /\ UNCHANGED <<fvars, svars, x_soup, args, runvars, kwvars, jobvars, requests>>

\* scrape_company returns its dict
ExtractCompany ==
    /\ x_kind = "none"
    /\ x_kind' = "company"
    /\ x_out' = << ScrapeCompany(x_soup) >>
    /\ UNCHANGED <<fvars, svars, x_soup, args, runvars, kwvars, jobvars, requests>>

NextExtract == ExtractListing \/ ExtractDetail \/ ExtractCompany

SpecExtract == InitExtract /\ [][NextExtract]_vars

(***************************************************************************)
(* Spec: one run of crawl_many_keywords.                                   *)
(***************************************************************************)
\* an entry of requests: who asked for what (the keyword, the page and the
\* position on the page of the job, 0 when the request is not for a job),
\* and for a listing request what came of it ("jobs", "empty" or "raised")
Request(kind, job, url, result) ==
    [kind |-> kind, kw |-> kw, page |-> page, job |-> job,
     url |-> url, result |-> result]

\* the page loop without its early stop
AfterListingNoStop(found) == "job"

\* if not jobs: break
AfterListing(found) == IF found = <<>> THEN "return" ELSE "job"

\* the get_soup calls among the requests
Fetches == { i \in 1..Len(requests) : requests[i].kind # "warmup" }

\* the model follows a run up to MaxFetches get_soup calls
CanFetch == Cardinality(Fetches) < MaxFetches

\* what the warm-up GET of build_session may be answered
WarmupAnswers == {200, 403, NetError}

\* a build_session without the try/except around its warm-up GET
BuildSessionUnguarded(answer) ==
    IF answer = NetError THEN "raise" ELSE "session"

\* build_session: try: r = s.get(BASE, timeout=30) ...
\* except requests.RequestException: print(...); return s
BuildSession(answer) == "session"

Init ==
    /\ FetchIdle /\ SlugIdle /\ ExtractIdle
    /\ keywords \in KeywordLists
    /\ start_page \in 1..MaxPage
    /\ end_page \in 1..MaxPage
    /\ crawl_date_arg \in CrawlDates
    /\ pc = "start" /\ crawl_date = None /\ kw = 0
    /\ all_frames = <<>> /\ df_all = <<>>
    /\ crawl_date_kw = None
    /\ page = 0 /\ jobs = <<>> /\ jidx = 0 /\ seen_jobs = {} /\ rows = <<>>
    /\ listing_call = NoCall /\ warmup = <<>>
    /\ detail = AbsentDetail /\ company_url = None /\ comp = AbsentCompany
    /\ slept = {}
    /\ detail_call = NoCall /\ company_call = NoCall
    /\ requests = <<>>

\* the locals of one iteration of the job loop, before they are assigned
ResetJob ==
    /\ detail' = AbsentDetail /\ company_url' = None /\ comp' = AbsentCompany
    /\ slept' = {}
    /\ detail_call' = NoCall /\ company_call' = NoCall

\* crawl_many_keywords up to its loop: the crawl date, the empty accumulator
StartRun ==
    /\ pc = "start"
    /\ crawl_date' = DefaultDate(crawl_date_arg, Today)
    /\ all_frames' = <<>>
    /\ kw' = 1
    /\ pc' = "keyword"
    /\ UNCHANGED <<fvars, svars, xvars, args, df_all, kwvars, jobvars, requests>>

\* for kw in keywords: crawl_to_dataframe(...) up to its page loop, with
\* build_session and its warm-up GET
BeginKeyword ==
    /\ pc = "keyword"
    /\ kw <= Len(keywords)
    /\ \E now \in Clock :
         crawl_date_kw' = DefaultDate(DateArgument(crawl_date), now)
    /\ rows' = <<>>
    /\ seen_jobs' = {}
    /\ page' = start_page
    /\ jobs' = <<>> /\ jidx' = 0
    /\ listing_call' = NoCall
    /\ ResetJob
    /\ requests' = Append(requests, [Request("warmup", 0, None, "issued") EXCEPT !.page = 0])
    /\ \E answer \in WarmupAnswers :
         /\ warmup' = <<answer>>
         /\ pc' = IF BuildSession(answer) = "session" THEN "page" ELSE "raised"
    /\ UNCHANGED <<fvars, svars, xvars, args, crawl_date, kw, all_frames, df_all>>

\* for page in range(start_page, end_page + 1): jobs = parse_search_page(s, url)
FetchListing ==
    /\ pc = "page"
    /\ page <= end_page
    /\ CanFetch
    /\ \E call \in GetSoupCalls(ListingPages) :
         /\ listing_call' = [call EXCEPT !.soup = EmptySoup]
         /\ warmup' = <<>>
         /\ IF call.outcome = "raise"
            THEN \* nothing catches it: it leaves crawl_many_keywords
                 /\ requests' = Append(requests, Request("listing", 0, None, "raised"))
                 /\ pc' = "raised"
                 /\ UNCHANGED <<jobs, jidx>>
            ELSE /\ jobs' = ParseSearchPage(call.soup)
                 /\ requests' = Append(requests,
                       Request("listing", 0, None,
                               IF jobs' = <<>> THEN "empty" ELSE "jobs"))
                 /\ jidx' = 1
                 /\ pc' = AfterListing(jobs')
    /\ UNCHANGED <<fvars, svars, xvars, args, crawl_date, kw, all_frames, df_all,
                   crawl_date_kw, page, seen_jobs, rows, jobvars>>

\* the page loop is over
EndPages ==
    /\ pc = "page"
    /\ page > end_page
    /\ warmup' = <<>>
    /\ pc' = "return"
    /\ UNCHANGED <<fvars, svars, xvars, args, crawl_date, kw, all_frames, df_all,
                   crawl_date_kw, page, jobs, jidx, seen_jobs, rows, listing_call,
                   jobvars, requests>>

\* for j in jobs: a job seen before is skipped, a new one is marked seen
NextJob ==
    /\ pc = "job"
    /\ jidx <= Len(jobs)
    /\ IF JobId(jobs[jidx]) \in seen_jobs
       THEN /\ jidx' = jidx + 1
            /\ UNCHANGED <<pc, seen_jobs, jobvars>>
       ELSE /\ seen_jobs' = seen_jobs \cup {JobId(jobs[jidx])}
            /\ pc' = "detail"
            /\ ResetJob
            /\ UNCHANGED jidx
    /\ UNCHANGED <<fvars, svars, xvars, args, crawl_date, kw, all_frames, df_all,
                   crawl_date_kw, page, jobs, rows, listing_call, warmup, requests>>

\* the jobs of the page are done: smart_sleep(*delay_between_pages), next page
EndJobs ==
    /\ pc = "job"
    /\ jidx > Len(jobs)
    /\ page' = NextPage(page)
    /\ listing_call' = NoCall
    /\ pc' = "page"
    /\ UNCHANGED <<fvars, svars, xvars, args, crawl_date, kw, all_frames, df_all,
                   crawl_date_kw, jobs, jidx, seen_jobs, rows, warmup, jobvars, requests>>

\* try: detail = scrape_job_detail(s, job_url) except Exception: all None
DetailStage ==
    /\ pc = "detail"
    /\ CanFetch
    /\ \E call \in StageCalls(DetailPages) :
         /\ detail_call' = [call EXCEPT !.soup = EmptySoup]
         /\ detail' = IF call.outcome = "raise"
                      THEN AbsentDetail
                      ELSE ScrapeJobDetail(call.soup)
         /\ slept' = IF ReachesSleep(call) THEN slept \cup {"detail"} ELSE slept
    /\ requests' = Append(requests, Request("detail", jidx, jobs[jidx]["job_url"], "issued"))
    /\ pc' = "company"
    /\ UNCHANGED <<fvars, svars, xvars, args, crawl_date, kw, all_frames, df_all,
                   kwvars, company_url, comp, company_call>>

\* company_url = ... ; try: comp = scrape_company(s, company_url)
\* except Exception: all None
CompanyStage ==
    /\ pc = "company"
    /\ company_url' = ResolveCompanyUrl(detail, jobs[jidx])
    /\ IF ~HasCompanyUrl(company_url')
       THEN /\ comp' = AbsentCompany
            /\ UNCHANGED <<slept, company_call, requests>>
       ELSE /\ CanFetch
            /\ \E call \in StageCalls(CompanyPages) :
                 /\ company_call' = [call EXCEPT !.soup = EmptySoup]
                 /\ comp' = IF call.outcome = "raise"
                            THEN AbsentCompany
                            ELSE ScrapeCompany(call.soup)
                 /\ slept' = IF ReachesSleep(call)
                             THEN slept \cup {"company"}
                             ELSE slept
            /\ requests' = Append(requests, Request("company", jidx, company_url', "issued"))
    /\ pc' = "merge"
    /\ UNCHANGED <<fvars, svars, xvars, args, crawl_date, kw, all_frames, df_all,
                   kwvars, detail, detail_call>>

\* row = {**j, **detail, **comp}; row["crawl_date"] = ...; rows.append(row)
Merge ==
    /\ pc = "merge"
    /\ rows' = Append(rows, MergeRow(jobs[jidx], detail, comp, crawl_date_kw))
    /\ pc' = "merged"
    /\ UNCHANGED <<fvars, svars, xvars, args, crawl_date, kw, all_frames, df_all,
                   crawl_date_kw, page, jobs, jidx, seen_jobs, listing_call, warmup, jobvars,
                   requests>>

\* the job loop moves on to the next entry of the page; the locals of the
\* iteration that ends are not read again before they are assigned
AdvanceJob ==
    /\ pc = "merged"
    /\ jidx' = jidx + 1
    /\ pc' = "job"
    /\ ResetJob
    /\ UNCHANGED <<fvars, svars, xvars, args, crawl_date, kw, all_frames, df_all,
                   crawl_date_kw, page, jobs, seen_jobs, rows, listing_call, warmup, requests>>

\* crawl_to_dataframe returns df_kw; an empty one is skipped, another is
\* tagged and appended; then the next keyword
EndKeyword ==
    /\ pc = "return"
    /\ all_frames' = IF rows = <<>>
                     THEN all_frames
                     ELSE Append(all_frames,
                                 TagFrame(SelectColumns(rows), keywords[kw]))
    /\ kw' = kw + 1
    /\ pc' = "keyword"
    \* the locals of the crawl_to_dataframe call that returned are gone
    /\ crawl_date_kw' = None
    /\ page' = 0 /\ jobs' = <<>> /\ jidx' = 0 /\ seen_jobs' = {} /\ rows' = <<>>
    /\ listing_call' = NoCall /\ warmup' = <<>>
    /\ UNCHANGED <<fvars, svars, xvars, args, crawl_date, df_all, jobvars, requests>>

\* after the keyword loop: concat and drop_duplicates, or an empty DataFrame
Finish ==
    /\ pc = "keyword"
    /\ kw > Len(keywords)
    /\ df_all' = IF all_frames = <<>>
                 THEN <<>>
                 ELSE DropDuplicates(Concat(all_frames))
    /\ pc' = "done"
    /\ UNCHANGED <<fvars, svars, xvars, args, crawl_date, kw, all_frames, kwvars, jobvars, requests>>

Next ==
    \/ StartRun
    \/ BeginKeyword
    \/ FetchListing
    \/ EndPages
    \/ NextJob
    \/ EndJobs
    \/ DetailStage
    \/ CompanyStage
    \/ Merge
    \/ AdvanceJob
    \/ EndKeyword
    \/ Finish

Spec == Init /\ [][Next]_vars

(***************************************************************************)
(* Properties.                                                             *)
(***************************************************************************)
\* the path identity of a record
PathOf(row) == UrlPath(row["job_url"])

\* the records of a frame whose job has path p
RowsOfPath(frame, p) == { i \in 1..Len(frame) : PathOf(frame[i]) = p }

JobPaths == { e.path : e \in UrlParts }

\* the get_soup call of SpecFetch is over and every attempt was answered s
EveryAttemptAnswered(s) ==
    /\ f_out # "running"
    /\ \A i \in 1..Len(f_hist) : f_hist[i] = s

\* the answers of a call of a run were all s, through all the attempts
AllAttempts(call, s) ==
    /\ Len(call.answers) = MaxAttempts
    /\ \A i \in 1..Len(call.answers) : call.answers[i] = s

\* C1: no two records of the dataset crawl_many_keywords returns have job
\* URLs with the same path component, whatever keyword or query string.
C1_NoTwoRecordsSharePath ==
    pc = "done" =>
        \A i, j \in 1..Len(df_all) :
            i # j => PathOf(df_all[i]) # PathOf(df_all[j])

\* C2: within one crawl_to_dataframe call, a job path that appears in
\* several stubs gets exactly one record, and its detail page is requested
\* at most once.
C2_OneRecordAndOneDetailFetchPerPath ==
    /\ \A p \in JobPaths : Cardinality(RowsOfPath(rows, p)) <= 1
    /\ pc \in {"job", "merged"} =>
         \A k \in 1..Len(jobs) :
            (k < jidx \/ (k = jidx /\ pc = "merged")) =>
                Cardinality(RowsOfPath(rows, UrlPath(jobs[k]["job_url"]))) = 1
    /\ \A a, b \in 1..Len(requests) :
         ( /\ a # b
           /\ requests[a].kind = "detail" /\ requests[b].kind = "detail"
           /\ requests[a].kw = requests[b].kw )
         => UrlPath(requests[a].url) # UrlPath(requests[b].url)

\* the second page of the range showed only a job of the first page, and
\* the keyword has one record
C2_Witness ==
    /\ pc = "job" /\ jidx > Len(jobs) /\ Len(jobs) >= 1
    /\ page = start_page + 1
    /\ Len(rows) = 1

\* C3: once the listing fetch of page N of a keyword yields zero stubs, no
\* request at all (listing, detail or company) is issued for that keyword
\* any more.
C3_NoRequestAfterEmptyListing ==
    \A a, b \in 1..Len(requests) :
        ( /\ a < b
          /\ requests[a].kind = "listing"
          /\ requests[a].result = "empty" )
        => requests[b].kw > requests[a].kw

\* page N was empty, page N+1 was in the range, and the run is over
C3_Witness ==
    /\ pc = "done"
    /\ \E a \in 1..Len(requests) :
         /\ requests[a].kind = "listing"
         /\ requests[a].result = "empty"
         /\ requests[a].page < end_page

\* C4: a URL that answers 429 on every attempt, or 500 on every attempt,
\* gets exactly 5 attempts and then get_soup raises to its caller.
C4_ExhaustionRaises ==
    \A s \in {429, 500} :
        EveryAttemptAnswered(s) =>
            Len(f_hist) = MaxAttempts /\ f_out = "raise"

\* C5: a URL that answers 403 on every attempt gets exactly 5 attempts and
\* then get_soup returns the empty document, without raising.
C5_BlockedReturnsEmpty ==
    /\ Len(f_hist) <= MaxAttempts
    /\ EveryAttemptAnswered(403) =>
         Len(f_hist) = MaxAttempts /\ f_out = "empty"

C5_Witness ==
    /\ EveryAttemptAnswered(403)
    /\ Len(f_hist) = MaxAttempts
    /\ f_out = "empty"

\* the record appended last, and the job entry the job loop is at
LastRow == rows[Len(rows)]
CurrentJob == jobs[jidx]

AbsentIn(row, keys) == \A k \in keys : row[k] = None

\* this step appends one record, of the current job, and changes no other
AppendsRecordOfCurrentJob ==
    /\ Len(rows') = Len(rows) + 1
    /\ SubSeq(rows', 1, Len(rows)) = rows
    /\ rows'[Len(rows')]["job_url"] = CurrentJob["job_url"]

\* C6 as stated: when the detail fetch of a job answers 403 on all attempts,
\* the job still gets its record, with every detail field and every
\* company field absent, and the other records are unaffected.
C6_BlockedDetailLeavesCompanyAbsent ==
    [][ (pc = "merge" /\ AllAttempts(detail_call, 403)) =>
            /\ AppendsRecordOfCurrentJob
            /\ AbsentIn(rows'[Len(rows')], DetailKeys)
            /\ AbsentIn(rows'[Len(rows')], CompanyKeys) ]_vars

\* C6 amended: when the detail fetch of a job answers 403 on all attempts,
\* the job still gets its record, with every detail field absent; the
\* company stage runs on the stub's employer URL, so the company fields are
\* absent when the stub has no employer URL or that fetch is blocked or
\* fails, and are what the employer page yields otherwise; the other
\* records are unaffected.
C6_BlockedDetailFallsBackToStubCompany ==
    [][ (pc = "merge" /\ AllAttempts(detail_call, 403)) =>
            /\ AppendsRecordOfCurrentJob
            /\ AbsentIn(rows'[Len(rows')], DetailKeys)
            /\ company_url = CurrentJob["company_url"]
            /\ IF company_url # None /\ company_call.outcome = "content"
               THEN \E p \in CompanyPages :
                      \A k \in CompanyKeys :
                         rows'[Len(rows')][k] = ScrapeCompany(p)[k]
               ELSE AbsentIn(rows'[Len(rows')], CompanyKeys) ]_vars

\* the second job of a page was blocked on its detail page, its stub's
\* employer page was fetched, and both jobs have their records
C6_Witness ==
    /\ pc = "merged" /\ jidx = 2 /\ Len(rows) = 2
    /\ AllAttempts(detail_call, 403)
    /\ company_call.outcome = "content"
    /\ AbsentIn(LastRow, DetailKeys)
    /\ ~AbsentIn(LastRow, CompanyKeys)
    /\ PathOf(rows[1]) = UrlPath(jobs[1]["job_url"])

\* C7: when the detail stage or the company stage of a job raises, the job
\* still gets one record, with the fields of the failed stage absent, and
\* the job loop and the page loop go on; the failure never ends the run.
C7_StageFailureIsConfined ==
    [][ /\ pc = "detail" => pc' = "company"
        /\ pc = "company" => pc' = "merge"
        /\ pc = "merge" =>
             /\ pc' = "merged"
             /\ AppendsRecordOfCurrentJob
             /\ detail_call.outcome = "raise" =>
                  AbsentIn(rows'[Len(rows')], DetailKeys)
             /\ company_call.outcome = "raise" =>
                  AbsentIn(rows'[Len(rows')], CompanyKeys)
        /\ pc = "merged" =>
             pc' = "job" /\ jidx' = jidx + 1 /\ jobs' = jobs /\ page' = page
        /\ (pc = "job" /\ jidx > Len(jobs)) =>
             pc' = "page" /\ page' = page + 1 ]_vars

\* the detail stage and the company stage of the first job of a page raised,
\* its record is there, and a second job of the page is still to come
C7_Witness ==
    /\ pc = "merged" /\ jidx = 1 /\ Len(jobs) = 2 /\ Len(rows) = 1
    /\ detail_call.outcome = "raise"
    /\ company_call.outcome = "raise"
    /\ AbsentIn(rows[1], DetailKeys \cup CompanyKeys)

\* C8: a listing fetch that raises ends the pagination of its keyword only:
\* the exception does not leave crawl_many_keywords, which goes on with the
\* remaining keywords.
C8_ListingFailureIsConfinedToKeyword ==
    \A a \in 1..Len(requests) :
        (requests[a].kind = "listing" /\ requests[a].result = "raised")
        => pc # "raised"

\* the stub of the current job has employer URL A, its detail page another one
StubAndDetailDisagree ==
    /\ pc = "merged"
    /\ CurrentJob["company_url"] # None
    /\ detail["company_url_from_job"] # None
    /\ CurrentJob["company_url"] # detail["company_url_from_job"]

\* C9 as stated: with employer URL A in the stub and B on the detail page,
\* the employer URL of the merged record is B.
C9_RecordEmployerUrlIsDetailUrl ==
    StubAndDetailDisagree =>
        LastRow["company_url"] = detail["company_url_from_job"]

\* C9 amended: with employer URL A in the stub and B on the detail page, the
\* merged record carries B in company_url_from_job and keeps A in
\* company_url, and B is the URL the company stage resolved.
C9_RecordKeepsBothEmployerUrls ==
    StubAndDetailDisagree =>
        /\ LastRow["company_url_from_job"] = detail["company_url_from_job"]
        /\ LastRow["company_url"] = CurrentJob["company_url"]
        /\ company_url = detail["company_url_from_job"]

C9_Witness ==
    /\ StubAndDetailDisagree
    /\ LastRow["company_url"] = UrlA
    /\ LastRow["company_url_from_job"] = UrlB

\* C10: the company stage of a job requests the employer URL of the detail
\* page when there is one, otherwise the stub's (also after a failed or
\* blocked detail stage), and nothing when there is neither.
C10_CompanyStageRequestsDetailUrlFirst ==
    pc \in {"merge", "merged"} =>
        LET fromDetail == detail["company_url_from_job"]
            fromStub   == CurrentJob["company_url"]
            last       == requests[Len(requests)]
        IN  /\ fromDetail # None =>
                 last.kind = "company" /\ last.url = fromDetail
            /\ (fromDetail = None /\ fromStub # None) =>
                 last.kind = "company" /\ last.url = fromStub
            /\ (fromDetail = None /\ fromStub = None) =>
                 last.kind = "detail" /\ company_call = NoCall

\* the detail stage of a job was blocked and the company stage requested the
\* stub's employer URL
C10_Witness ==
    /\ pc = "merged"
    /\ detail_call.outcome = "empty"
    /\ CurrentJob["company_url"] = UrlA
    /\ requests[Len(requests)].kind = "company"
    /\ requests[Len(requests)].url = UrlA

\* the date every record of the run has to carry
RunDate == IF crawl_date_arg # None THEN crawl_date_arg ELSE crawl_date

\* the records of a frame all carry date d
StampedWith(frame, d) == \A i \in 1..Len(frame) : frame[i]["crawl_date"] = d

\* C11: all records of one crawl_many_keywords run carry the same
\* crawl_date, the caller's override when there is one and otherwise the
\* date computed once when the run starts, over all keywords and pages.
C11_AllRecordsCarryRunDate ==
    /\ pc # "start" => crawl_date \in Clock \cup {crawl_date_arg}
    /\ StampedWith(rows, RunDate)
    /\ \A f \in 1..Len(all_frames) : StampedWith(all_frames[f], RunDate)
    /\ StampedWith(df_all, RunDate)

\* a run without override returned records of two keywords
C11_Witness ==
    /\ pc = "done"
    /\ crawl_date_arg = None
    /\ Len(df_all) = 2
    /\ df_all[1]["search_keyword"] # df_all[2]["search_keyword"]
    /\ df_all[1]["crawl_date"] = df_all[2]["crawl_date"]

\* C12: whatever the page, no field of a dict returned by the listing, the
\* detail or the company extractor is an empty string (the lists the detail
\* extractor collects are joined into strings, None when empty); what is
\* not found is None, also the company name taken from a <meta> or from a
\* title that is nothing but the site's suffix.
C12_ExtractorsReturnNoEmptyString ==
    \A i \in 1..Len(x_out) :
        \A k \in DOMAIN x_out[i] : x_out[i][k] # ""

\* the warm-up GETs issued so far: one for each build_session call
Warmups == { i \in 1..Len(requests) : requests[i].kind = "warmup" }

\* C13: in one crawl_many_keywords run, whatever the number of keywords,
\* the session is built once and one warm-up GET to the site root is
\* issued, before the first listing request.
C13_OneSessionAndWarmupPerRun ==
    /\ Cardinality(Warmups) <= 1
    /\ (pc = "done" /\ keywords # <<>>) => Cardinality(Warmups) = 1
    /\ \A i \in 1..Len(requests) :
          requests[i].kind = "listing" => \E w \in Warmups : w < i

\* the place of a request within the processing of one job or page
StageRank(kind) ==
    IF kind = "warmup" THEN 0
    ELSE IF kind = "listing" THEN 1
    ELSE IF kind = "detail" THEN 2
    ELSE 3

\* request a comes before request b in the order keyword, page, position of
\* the job on the page, stage
Before(a, b) ==
    \/ a.kw < b.kw
    \/ a.kw = b.kw /\ a.page < b.page
    \/ a.kw = b.kw /\ a.page = b.page /\ a.job < b.job
    \/ /\ a.kw = b.kw /\ a.page = b.page /\ a.job = b.job
       /\ StageRank(a.kind) < StageRank(b.kind)

\* C14: requests are issued in a fixed order: within a keyword the listing
\* pages in increasing page number, the jobs of a page in document order
\* (detail, then company) before the next page is fetched, and all the
\* requests of a keyword before those of the next keyword of the list.
C14_RequestsInFixedOrder ==
    /\ \A a, b \in 1..Len(requests) :
          a < b => Before(requests[a], requests[b])
    /\ pc \in {"job", "detail", "company", "merge", "merged"} =>
          \A i \in 1..Len(requests) :
             ( /\ requests[i].kind = "detail"
               /\ requests[i].kw = kw /\ requests[i].page = page )
             => requests[i].url = jobs[requests[i].job]["job_url"]

\* the first keyword had a job on its first page and a second page, and the
\* second keyword has had its listing fetched
C14_Witness ==
    /\ Len(requests) = 6
    /\ requests[3].kind = "detail"
    /\ requests[4].kind = "listing" /\ requests[4].page = requests[2].page + 1
    /\ requests[5].kind = "warmup" /\ requests[5].kw = 2
    /\ requests[6].kind = "listing"

UrlSafe == Range(LowerLetters) \cup Digits \cup {"-"}

\* C15: slugify is total and its output is URL-safe: for every text (empty,
\* all punctuation, non-ASCII) it returns, and what it returns contains
\* only lowercase ASCII letters, digits and hyphens.
C15_SlugIsUrlSafe ==
    s_pc = "done" => \A i \in 1..Len(s_slug) : s_slug[i] \in UrlSafe

\* a text with a decomposable letter, punctuation and a capital
C15_Witness ==
    /\ s_pc = "done"
    /\ s_text = <<"U+1EF9", "!", "B">>
    /\ s_slug = <<"y", "-", "b">>

\* the ASCII transliteration of a text
Translit(t) == EncodeAsciiIgnore(Normalize(t))

Lowered(t) == [i \in 1..Len(t) |-> ToLower(t[i])]

\* the longest prefix of t made of characters of S
RECURSIVE TakeWhile(_, _)
TakeWhile(t, S) ==
    IF t # <<>> /\ Head(t) \in S
    THEN <<Head(t)>> \o TakeWhile(Tail(t), S)
    ELSE <<>>

NoAdjacentHyphens(t) ==
    \A i \in 1..(Len(t) - 1) : ~(t[i] = "-" /\ t[i + 1] = "-")

\* t with every maximal run of non-alphanumeric characters replaced by one
\* hyphen
EveryRunOneHyphen(t) == SubRuns(t, Range(t) \ Alnum)

\* t with every maximal run of non-alphanumeric characters replaced by one
\* hyphen, except a run at the start or the end of t without a hyphen in
\* it, which is removed
RECURSIVE InnerRunOneHyphen(_, _)
InnerRunOneHyphen(t, atStart) ==
    IF t = <<>> THEN <<>>
    ELSE IF Head(t) \in Alnum
    THEN <<Head(t)>> \o InnerRunOneHyphen(Tail(t), FALSE)
    ELSE LET S    == Range(t) \ Alnum
             run  == TakeWhile(t, S)
             rest == DropWhile(t, S)
             edge == atStart \/ rest = <<>>
         IN  (IF edge /\ "-" \notin Range(run) THEN <<>> ELSE <<"-">>)
             \o InnerRunOneHyphen(rest, FALSE)

SlugOfDataEngineer ==
    <<"d", "a", "t", "a", "-", "e", "n", "g", "i", "n", "e", "e", "r">>

\* C16 as stated: slugify replaces each maximal run of non-alphanumeric
\* characters of the ASCII-transliterated text by exactly one hyphen, never
\* outputs two adjacent hyphens, and lowercases the letters;
\* slugify("Data Engineer") = "data-engineer".
C16_EveryRunBecomesOneHyphen ==
    s_pc = "done" =>
        /\ s_slug = Lowered(EveryRunOneHyphen(Translit(s_text)))
        /\ NoAdjacentHyphens(s_slug)
        /\ s_text = DataEngineer => s_slug = SlugOfDataEngineer

\* C16 amended: slugify replaces each maximal run of non-alphanumeric
\* characters of the ASCII-transliterated text by exactly one hyphen,
\* except that a run at the start or at the end of the text that contains
\* no hyphen is removed; it never outputs two adjacent hyphens, and
\* lowercases the letters; slugify("Data Engineer") = "data-engineer".
C16_InnerRunBecomesOneHyphen ==
    s_pc = "done" =>
        /\ s_slug = Lowered(InnerRunOneHyphen(Translit(s_text), TRUE))
        /\ NoAdjacentHyphens(s_slug)
        /\ s_text = DataEngineer => s_slug = SlugOfDataEngineer

\* a text with a leading blank, and an inner run of three characters
C16_Witness ==
    /\ s_pc = "done"
    /\ \/ s_text = <<" ", "a">> /\ s_slug = <<"a">>
       \/ s_text = <<"!", "-", " ">> /\ s_slug = <<"-">>
       \/ s_text = DataEngineer /\ s_slug = SlugOfDataEngineer

\* the first of a non-empty set of positions
First(S) == CHOOSE i \in S : \A j \in S : i <= j

\* C17: when the same job (the same job path) is recorded under several
\* keywords of a run, the returned dataset has exactly one record of it,
\* the one of the earliest of those keywords, with that keyword's
\* search_keyword and search_slug.
C17_EarliestKeywordRecordIsKept ==
    pc = "done" =>
        \A p \in JobPaths :
            LET tagged == Concat(all_frames)
                recs   == RowsOfPath(tagged, p)
                kept   == RowsOfPath(df_all, p)
            IN  Cardinality(recs) >= 2 =>
                    /\ Cardinality(kept) = 1
                    /\ \A i \in kept : df_all[i] = tagged[First(recs)]

\* neither the detail page nor the stub of the current job has an employer URL
NoEmployerUrl ==
    /\ detail["company_url_from_job"] = None
    /\ CurrentJob["company_url"] = None

\* C18: when neither the detail page nor the stub supplies an employer URL,
\* the company stage issues no request and no politeness delay, raises no
\* error, and the six company fields of the record are absent.
C18_NoUrlNoCompanyRequest ==
    [][ /\ (pc = "company" /\ NoEmployerUrl) =>
             /\ requests' = requests
             /\ slept' = slept
             /\ company_call' = NoCall
             /\ comp' = AbsentCompany
             /\ pc' = "merge"
        /\ (pc = "merge" /\ NoEmployerUrl) =>
             /\ AppendsRecordOfCurrentJob
             /\ AbsentIn(rows'[Len(rows')], CompanyKeys) ]_vars

\* the detail page of a job was read and has no employer link, nor has the
\* stub, and the record is there
C18_Witness ==
    /\ pc = "merged"
    /\ NoEmployerUrl
    /\ detail_call.outcome = "content"
    /\ company_call = NoCall
    /\ slept = {"detail"}
    /\ requests[Len(requests)].kind = "detail"
    /\ AbsentIn(LastRow, CompanyKeys)

\* the fields of a record of crawl_to_dataframe, and those of a record of
\* the returned dataset
RecordKeys == StubKeys \cup DetailKeys \cup CompanyKeys \cup {"crawl_date"}
TaggedKeys == RecordKeys \cup {"search_keyword", "search_slug"}

HasKeys(frame, keys) == \A i \in 1..Len(frame) : DOMAIN frame[i] = keys

\* C19: every record of a run has the same set of fields, all the stub,
\* detail and company fields plus crawl_date (and, once tagged, the two
\* keyword tags), whether its detail and company stages succeeded, were
\* blocked, were skipped for lack of an employer URL, or raised.
C19_RecordsHaveAllFields ==
    /\ HasKeys(rows, RecordKeys)
    /\ \A f \in 1..Len(all_frames) : HasKeys(all_frames[f], TaggedKeys)
    /\ HasKeys(df_all, TaggedKeys)

\* the first job of a page got all its fields from its pages; the detail
\* stage of the second raised and its company stage had no URL to fetch
C19_Witness ==
    /\ pc = "merged" /\ jidx = 2 /\ Len(rows) = 2
    /\ \A k \in (DetailKeys \cup CompanyKeys) \ {"company_url_from_job"} :
          rows[1][k] # None
    /\ detail_call.outcome = "raise"
    /\ company_call = NoCall
    /\ AbsentIn(rows[2], DetailKeys \cup CompanyKeys)

\* C20: whatever the answers to its attempts (200, 403, 429, other
\* statuses, network errors, in any mix), one get_soup call issues at most
\* 5 attempts and is over after the fifth at the latest, having returned a
\* document (the page, or the empty document) or raised; an attempt that is
\* answered 200 is the last one, and the call returns the page.
C20_AtMostFiveAttemptsThenOver ==
    /\ Len(f_hist) <= 5
    /\ Len(f_hist) = 5 => f_out # "running"
    /\ f_out \in {"running", "content", "empty", "raise"}
    /\ f_out = "running" => f_attempt = Len(f_hist) + 1
    /\ f_out # "running" => f_attempt = Len(f_hist)
    /\ \A i \in 1..Len(f_hist) :
          f_hist[i] = 200 => (i = Len(f_hist) /\ f_out = "content")

\* four different failures, then 200 on the fifth attempt
C20_Witness ==
    /\ f_hist = <<403, 429, 500, NetError, 200>>
    /\ f_out = "content"

\* the answers so far, but for the last n, were all of the set S
AllButLastIn(n, S) ==
    \A i \in 1..(Len(f_hist) - n) : f_hist[i] \in S

\* C21: for a URL whose attempts end in network errors, get_soup sleeps and
\* retries after each of the first 4 errors and lets the error of the 5th
\* reach its caller; when attempt k answers 200 after k-1 errors, the
\* content of attempt k is returned and no error surfaces.
C21_NetworkErrorsRetriedThenRaised ==
    /\ (f_hist # <<>> /\ AllButLastIn(0, {NetError})) =>
          IF Len(f_hist) < 5
          THEN f_out = "running" /\ f_nap > 0 /\ f_attempt = Len(f_hist) + 1
          ELSE f_out = "raise"
    /\ ( /\ f_hist # <<>> /\ f_hist[Len(f_hist)] = 200
         /\ AllButLastIn(1, {NetError}) ) =>
          f_out = "content"

\* five network errors in a row
C21_Witness ==
    /\ f_hist = <<NetError, NetError, NetError, NetError, NetError>>
    /\ f_out = "raise"

\* the latest answer, to attempt a, was status s
LatestAnswer(a, s) == Len(f_hist) = a /\ f_hist[a] = s

\* C22: for every attempt a in 1..4, the sleep after a 403 on attempt a is
\* longer than any sleep after a 429 without Retry-After on attempt a, and
\* longer than any sleep after a network error on attempt a.
C22_BlockedSleepsLongest ==
    \A a \in 1..4 :
        LatestAnswer(a, 403) =>
            /\ \A other \in Sleeps429(a, None) : f_nap > other
            /\ \A other \in SleepsError(a) : f_nap > other

\* C23: after a 429 on attempt a the sleep is longer (by a strictly positive
\* jitter) than the Retry-After seconds when the header is present and
\* parses as an integer, and longer than 30 * a otherwise (header absent or
\* not an integer); for a < 5 the next attempt follows that sleep.
C23_RateLimitSleepHonoursRetryAfter ==
    \A a \in 1..5 :
        LatestAnswer(a, 429) =>
            /\ IF f_retry_after # None /\ ParsesAsInt(f_retry_after)
               THEN f_nap > IntOf(f_retry_after)
               ELSE f_nap > 30 * a
            /\ a < 5 => f_out = "running" /\ f_attempt = a + 1

C23_Witness ==
    /\ LatestAnswer(2, 429)
    /\ f_retry_after = "120"
    /\ f_nap = 125
    /\ f_out = "running"

\* C28: for every sequence of answers, get_soup of scrape_topcv_company.py
\* and get_soup of src/scrape_topcv.py end with the same outcome after the
\* same number of attempts.
C28_VariantsAgree ==
    f_out # "running" => v_out = f_out /\ v_attempts = Len(f_hist)

\* C29: a run of answers that are error statuses other than 403 and 429
\* (404, 500) or network errors is slept on and retried while fewer than 5
\* attempts were made, with the sleep of a network error, and raises on the
\* 5th; content is never returned from an error status.
C29_OtherErrorStatusesLikeNetworkErrors ==
    /\ (f_hist # <<>> /\ AllButLastIn(0, {404, 500, NetError})) =>
          IF Len(f_hist) < 5
          THEN /\ f_out = "running"
               /\ f_nap \in SleepsError(Len(f_hist))
               /\ f_attempt = Len(f_hist) + 1
          ELSE f_out = "raise"
    /\ f_out = "content" => f_hist[Len(f_hist)] \in {200, 204}

C29_Witness ==
    /\ f_hist = <<404, 500, 404, 404, 404>>
    /\ f_out = "raise"

\* the rows of a company page whose label stands for field k and that have
\* a value, in document order
MatchingRows(k) ==
    SelectSeq(x_soup.info_rows,
              LAMBDA row : row.value # "" /\ FieldOf(row.label) = k)

\* C24: the company extractor gives website, size, industry and address
\* the value of the first row that matches the field, None when no row
\* matches.
C24_FirstMatchingRowWins ==
    x_kind = "company" =>
        \A k \in InfoFields :
            x_out[1][k] = IF MatchingRows(k) = <<>> THEN None
                          ELSE MatchingRows(k)[1].value

\* the path identities of the records accumulated so far
AccumulatedPaths == { PathOf(rows[i]) : i \in 1..Len(rows) }

\* the identity of the job whose detail, company and merge stages are under
\* way, if any
UnderWay ==
    IF pc \in {"detail", "company", "merge"}
    THEN {UrlPath(CurrentJob["job_url"])}
    ELSE {}

\* C27 as stated: at every point the set of seen identities equals the set
\* of path identities of the records accumulated so far (the set changes
\* only when a record is merged and accumulated).
C27_SeenEqualsAccumulatedPaths == seen_jobs = AccumulatedPaths

\* C27: at every point the set of seen identities is the set of path
\* identities of the records accumulated so far, plus the identity of the
\* job whose stages are under way: the set grows when a new job is taken
\* from the page, before its detail fetch, and no fetch or merge step
\* changes it.
C27_SeenIsAccumulatedPlusJobUnderWay ==
    seen_jobs = AccumulatedPaths \cup UnderWay

C27_Witness ==
    /\ pc = "detail"
    /\ Len(rows) = 1
    /\ Cardinality(seen_jobs) = 2
    /\ detail_call = NoCall

\* what crawl_many_keywords does with the records a crawl_to_dataframe call
\* returns
ReturnsRecords ==
    /\ pc' = "keyword"
    /\ all_frames' = IF rows = <<>>
                     THEN all_frames
                     ELSE Append(all_frames,
                                 TagFrame(SelectColumns(rows), keywords[kw]))

\* C30: a listing fetch that is answered 403 on all attempts yields no
\* stubs and ends the page loop of the keyword without an exception and
\* without touching the accumulated records, and the step after it returns
\* these records to crawl_many_keywords, as after an empty result page.
C30_BlockedListingEndsPagination ==
    [][ /\ (pc = "page" /\ AllAttempts(listing_call', 403)) =>
              /\ pc' = "return"
              /\ jobs' = <<>>
              /\ rows' = rows
              /\ requests'[Len(requests')].result = "empty"
        /\ (pc = "return" /\ AllAttempts(listing_call, 403)) => ReturnsRecords
      ]_vars

C30_Witness ==
    /\ pc = "return"
    /\ AllAttempts(listing_call, 403)
    /\ page = start_page + 1
    /\ Len(rows) >= 1

\* the warm-up GET of the keyword failed: a network error, or a status
\* other than 200
WarmupFailed(w) == w # <<>> /\ w[1] # 200

\* C26: when the warm-up GET of build_session fails, the step that made it
\* still enters the page loop at the first page with nothing raised, and
\* the step after it is the request for the first listing page.
C26_WarmupFailureIsNotFatal ==
    [][ /\ (pc = "keyword" /\ WarmupFailed(warmup')) =>
              pc' = "page" /\ page' = start_page
        /\ (pc = "page" /\ WarmupFailed(warmup) /\ page <= end_page) =>
              /\ Len(requests') = Len(requests) + 1
              /\ requests'[Len(requests')].kind = "listing"
              /\ requests'[Len(requests')].page = start_page
              /\ requests'[Len(requests')].kw = kw
      ]_vars

C26_Witness ==
    /\ pc = "page"
    /\ warmup = <<NetError>>
    /\ page = start_page
    /\ kw = 2

\* a get_soup call that returned content
ReturnedContent(call) == call.outcome = "content"

\* C25: the step in which the detail or company fetch of a job returns
\* content, on the first attempt or after retries, ends with the politeness
\* delay of that stage taken and with that fetch as the only request it
\* issued; so every later request of the run comes after the delay.
C25_DelayFollowsEveryContentFetch ==
    [][ /\ (pc = "detail" /\ ReturnedContent(detail_call')) =>
              /\ "detail" \in slept'
              /\ Len(requests') = Len(requests) + 1
              /\ requests'[Len(requests')].kind = "detail"
        /\ (pc = "company" /\ ReturnedContent(company_call')) =>
              /\ "company" \in slept'
              /\ Len(requests') = Len(requests) + 1
              /\ requests'[Len(requests')].kind = "company"
        /\ (Len(requests') > Len(requests) /\ ReturnedContent(detail_call)) =>
              "detail" \in slept
      ]_vars

\* both fetches of a job returned content, the detail fetch after a retry
C25_Witness ==
    /\ pc = "merge"
    /\ detail_call.answers = <<403, 200>>
    /\ company_call.answers = <<200>>
    /\ slept = {"detail", "company"}

====
